---- MODULE Spec2Model ----
(***************************************************************************)
(* Model of the monitoring client in frontend-layer/src/App.jsx: the       *)
(* WebSocket session (onopen / onclose / onmessage), the length-prefixed   *)
(* frame unpacking, the alert list kept in React state, the canvas paints  *)
(* scheduled with requestAnimationFrame, and handleResolve.                *)
(*                                                                         *)
(* Bytes.  An inbound message is a sequence of bytes.  The four header     *)
(* bytes are integers 0..255.  Every byte after the header is a pair       *)
(* <<kind, value>> of strings: one lexical unit of the JSON text or of the *)
(* JPEG data counts as one byte, so lengths and slices are computed on     *)
(* the same sequence the code slices.                                      *)
(*                                                                         *)
(* Not modelled: the clock timer (lines 12-15), the JSX, and the alert     *)
(* fields time and desc, which no handler reads back.                      *)
(***************************************************************************)
EXTENDS Integers, Sequences, FiniteSets, TLC

(* ---------------------------------------------------------------------- *)
(* Bounds                                                                  *)
(* ---------------------------------------------------------------------- *)
\* number of inbound messages delivered in one run
MaxMsgs == 2

(* ---------------------------------------------------------------------- *)
(* WebSocket ready states and the three status strings                     *)
(* ---------------------------------------------------------------------- *)
CONNECTING == 0
OPEN == 1
CLOSING == 2
CLOSED == 3

StatusConnecting == "Connecting..."
StatusActive == "Monitoring Active"
StatusDisconnected == "Disconnected"

(* ---------------------------------------------------------------------- *)
(* Bytes of the JSON text and of the image                                 *)
(* ---------------------------------------------------------------------- *)
LBrace == <<"{", "">>
RBrace == <<"}", "">>
LBrack == <<"[", "">>
RBrack == <<"]", "">>
SOI == <<"SOI", "">>

MemberKeys == {"frame_id", "unix_time", "emergency_detected"}

Min(a, b) == IF a < b THEN a ELSE b

\* ArrayBuffer.prototype.slice(begin, end): both ends are clamped to the
\* buffer, and an end before the begin yields the empty buffer.
slice(buf, begin, end) == SubSeq(buf, Min(begin, Len(buf)) + 1, Min(end, Len(buf)))

\* DataView.getUint32(0, false): big-endian value of the first four bytes.
getUint32(buf) == buf[1] * 16777216 + buf[2] * 65536 + buf[3] * 256 + buf[4]

\* The four big-endian header bytes of a length n (the producer's side).
U32BE(n) ==
  << (n \div 16777216) % 256, (n \div 65536) % 256, (n \div 256) % 256, n % 256 >>

(* ---------------------------------------------------------------------- *)
(* JSON.parse(new TextDecoder().decode(bytes))                             *)
(* A document is  { member* }  where a member is a frame_id, a unix_time,  *)
(* an alerts.emergency_detected flag, or one detections array              *)
(* [ class_name* ].  Anything else (the empty text, a cut document, a      *)
(* document followed by image bytes) is a SyntaxError.                     *)
(* ---------------------------------------------------------------------- *)
Positions(s, b) == { i \in 1..Len(s) : s[i] = b }

WellFormed(text) ==
  /\ Len(text) >= 2
  /\ text[1] = LBrace
  /\ text[Len(text)] = RBrace
  /\ LET inner == SubSeq(text, 2, Len(text) - 1)
         lb == Positions(inner, LBrack)
         rb == Positions(inner, RBrack)
         cls == { i \in 1..Len(inner) : inner[i][1] = "class_name" }
     IN  /\ \A i \in 1..Len(inner) :
               inner[i][1] \in MemberKeys \cup {"class_name", "[", "]"}
         /\ \/ lb = {} /\ rb = {} /\ cls = {}
            \/ /\ Cardinality(lb) = 1
               /\ Cardinality(rb) = 1
               /\ \A l \in lb, r \in rb :
                     /\ l < r
                     /\ \A i \in 1..Len(inner) :
                           (l < i /\ i < r) <=> (i \in cls)

\* value of the last member with key k, "undefined" when there is none
Member(text, k) ==
  LET at == { i \in 1..Len(text) : text[i][1] = k }
  IN  IF at = {} THEN "undefined"
      ELSE text[CHOOSE i \in at : \A j \in at : j <= i][2]

IsClassName(b) == b[1] = "class_name"

ClassOf(s) == [i \in 1..Len(s) |-> s[i][2]]

ParseError == [ok |-> FALSE, frame_id |-> "undefined", unix_time |-> "undefined",
               emergency_detected |-> "undefined", hasDetections |-> FALSE,
               detections |-> <<>>]

JSONparse(text) ==
  IF ~WellFormed(text) THEN ParseError
  ELSE [ok |-> TRUE,
        frame_id |-> Member(text, "frame_id"),
        unix_time |-> Member(text, "unix_time"),
        emergency_detected |-> Member(text, "emergency_detected"),
        hasDetections |-> Positions(text, LBrack) # {},
        detections |-> ClassOf(SelectSeq(text, IsClassName))]

(* ---------------------------------------------------------------------- *)
(* createImageBitmap(blob): a JPEG is the start marker followed by its     *)
(* pixel data; the bitmap is the pixel data.                               *)
(* ---------------------------------------------------------------------- *)
Decodable(blob) == Len(blob) = 2 /\ blob[1] = SOI /\ blob[2][1] = "px"

Bitmap(blob) == blob[2][2]

(* ---------------------------------------------------------------------- *)
(* Inbound messages: what the producer can put on the wire                 *)
(* ---------------------------------------------------------------------- *)
Opt(k, v) == IF v = "undefined" THEN <<>> ELSE << <<k, v>> >>

\* the JSON text of a metadata record
Doc(meta) ==
  <<LBrace>> \o Opt("frame_id", meta.frame_id) \o Opt("unix_time", meta.unix_time)
    \o Opt("emergency_detected", meta.emergency_detected)
    \o (IF meta.hasDetections
          THEN <<LBrack>>
                 \o [i \in 1..Len(meta.detections) |-> <<"class_name", meta.detections[i]>>]
                 \o <<RBrack>>
          ELSE <<>>)
    \o <<RBrace>>

\* a wire message: declared header length L, then the body bytes
Frame(L, body) == U32BE(L) \o body

Record(f, u, e, h, d) ==
  [ok |-> TRUE, frame_id |-> f, unix_time |-> u, emergency_detected |-> e,
   hasDetections |-> h, detections |-> d]

Fire7 == Record("7", "1000", "true", TRUE, <<"Fire">>)
FireFall8 == Record("8", "1001", "true", TRUE, <<"Person", "Fire", "Fall", "Fire">>)
Quiet9 == Record("9", "1002", "false", TRUE, <<"Fire">>)
NoDetections == Record("9", "1002", "true", FALSE, <<>>)
NoFlag == Record("undefined", "undefined", "undefined", TRUE, <<"Fall">>)

JpegA == <<SOI, <<"px", "A">>>>
JpegB == <<SOI, <<"px", "B">>>>
Corrupt == <<SOI, <<"bad", "">>>>

\* a declared header length longer than every message
TooLong == 50

\* frames whose header length is the length of their JSON text
WellFormedFrames ==
  { Frame(Len(Doc(m)), Doc(m) \o JpegA) : m \in {Fire7, Quiet9, NoDetections, NoFlag} }
  \cup { Frame(Len(Doc(FireFall8)), Doc(FireFall8) \o JpegB),
         Frame(Len(Doc(Fire7)), Doc(Fire7) \o Corrupt) }

\* frames whose header length is not: too long with and without an image,
\* zero, and a message shorter than its header
BadLengthFrames ==
  { Frame(TooLong, Doc(Fire7) \o JpegA), Frame(TooLong, Doc(Fire7)),
    Frame(0, JpegB), <<0, 0>> }

\* event.data: a Blob for a binary message, a string for a text message
Messages ==
  { [blob |-> TRUE, bytes |-> b] : b \in WellFormedFrames \cup BadLengthFrames }
  \cup { [blob |-> FALSE, bytes |-> <<>>] }

(* ---------------------------------------------------------------------- *)
(* The synchronous part of ws.onmessage, lines 28-64                       *)
(* ---------------------------------------------------------------------- *)
jsonLen(buf) == getUint32(buf)

jsonText(buf) == slice(buf, 4, 4 + jsonLen(buf))

\* the binary frames of Messages
Bufs == WellFormedFrames \cup BadLengthFrames

\* JSON.parse of the metadata slice of every frame, computed once; a frame
\* shorter than its header never reaches the parse
PayloadTable ==
  [b \in Bufs |-> IF Len(b) < 4 THEN ParseError ELSE JSONparse(jsonText(b))]

payloadOf(buf) == PayloadTable[buf]

imageBlob(buf) == slice(buf, 4 + jsonLen(buf), Len(buf))

EmergencyClasses == {"Fire", "Fall", "Accident", "Violence", "Unconsciousness"}

\* the id with its two parts swapped
eventId_swapped(payload) == "evt_" \o payload.unix_time \o "_" \o payload.frame_id

eventId(payload) == "evt_" \o payload.frame_id \o "_" \o payload.unix_time

\* the updater without its duplicate check
setAlertsUpdater_noDedup(prev, id, className) ==
  << [id |-> id, class_name |-> className,
      severity |-> "HIGH", location |-> "ROAD 1"] >> \o prev

\* the updater putting the new alert last
setAlertsUpdater_append(prev, id, className) ==
  IF \E i \in 1..Len(prev) : prev[i].class_name = className
    THEN prev
    ELSE prev \o << [id |-> id, class_name |-> className,
                     severity |-> "HIGH", location |-> "ROAD 1"] >>

\* the updater looking for a duplicate by id
setAlertsUpdater_dedupById(prev, id, className) ==
  IF \E i \in 1..Len(prev) : prev[i].id = id
    THEN prev
    ELSE << [id |-> id, class_name |-> className,
             severity |-> "HIGH", location |-> "ROAD 1"] >> \o prev

\* the updater passed to setAlerts, lines 46-58
setAlertsUpdater(prev, id, className) ==
  IF \E i \in 1..Len(prev) : prev[i].class_name = className
    THEN prev
    ELSE << [id |-> id, class_name |-> className,
             severity |-> "HIGH", location |-> "ROAD 1"] >> \o prev

\* payload.detections.forEach, lines 39-60: the updaters run in call order
RECURSIVE forEachDetection(_, _, _)
forEachDetection(dets, payload, prev) ==
  IF dets = <<>> THEN prev
  ELSE forEachDetection(Tail(dets), payload,
         IF Head(dets) \in EmergencyClasses
           THEN setAlertsUpdater(prev, eventId(payload), Head(dets))
           ELSE prev)

\* the handler throws: RangeError in getUint32, SyntaxError in JSON.parse,
\* TypeError in payload.detections.forEach
Throws(buf) ==
  \/ Len(buf) < 4
  \/ LET payload == payloadOf(buf)
     IN  \/ ~payload.ok
         \/ payload.emergency_detected = "true" /\ ~payload.hasDetections

\* alert logic that does not look at alerts.emergency_detected
alertLogic_ignoreFlag(buf, prev) ==
  IF Throws(buf) THEN prev
  ELSE forEachDetection(payloadOf(buf).detections, payloadOf(buf), prev)

\* the alert list after the alert logic of lines 38-61
alertLogic(buf, prev) ==
  IF Throws(buf) THEN prev
  ELSE LET payload == payloadOf(buf)
       IN  IF payload.emergency_detected = "true"
             THEN forEachDetection(payload.detections, payload, prev)
             ELSE prev

(* ---------------------------------------------------------------------- *)
(* State                                                                   *)
(* ---------------------------------------------------------------------- *)
VARIABLES
  alerts,        \* useState([]): the alert list, newest first
  systemStatus,  \* useState("Connecting...")
  readyState,    \* ws.readyState
  mounted,       \* the component is mounted: canvasRef.current is the canvas
  canvas,        \* the bitmap last drawn on the canvas, "blank" before any
  handlers,      \* onmessage invocations suspended at an await
  rafQueue,      \* callbacks registered with requestAnimationFrame, in order
  nDelivered,    \* number of message events fired so far
  latest,        \* the latest-arrived message whose image decoded
  failed,        \* some onmessage invocation has ended in a rejection
  last           \* what the last step did

vars == <<alerts, systemStatus, readyState, mounted, canvas, handlers,
          rafQueue, nDelivered, latest, failed, last>>

NoStep ==
  [op |-> "init", status |-> StatusConnecting, ready |-> CONNECTING,
   created |-> 0, removed |-> 0, changed |-> FALSE, draws |-> 0,
   sends |-> <<>>, id |-> "", had |-> FALSE,
   len |-> 0, L |-> 0, blobLen |-> 0, threw |-> FALSE, validImage |-> FALSE,
   decodable |-> FALSE,
   seq |-> 0, parsed |-> FALSE, flag |-> "undefined", frame_id |-> "undefined",
   unix_time |-> "undefined", classes |-> {}, before |-> <<>>,
   again |-> FALSE]

\* the record of a step: its name and the state it started from
Step(name) == [NoStep EXCEPT !.op = name, !.status = systemStatus, !.ready = readyState]

Init ==
  /\ alerts = <<>>
  /\ systemStatus = StatusConnecting
  /\ readyState = CONNECTING
  /\ mounted = TRUE
  /\ canvas = "blank"
  /\ handlers = {}
  /\ rafQueue = <<>>
  /\ nDelivered = 0
  /\ latest = [seq |-> 0, bitmap |-> "blank"]
  /\ failed = FALSE
  /\ last = NoStep

(* ---------------------------------------------------------------------- *)
(* The WebSocket's events                                                  *)
(* ---------------------------------------------------------------------- *)
\* ws.onopen, line 22: the socket becomes OPEN and the open event fires
onopen ==
  /\ readyState = CONNECTING
  /\ readyState' = OPEN
  /\ systemStatus' = StatusActive
  /\ last' = Step("onopen")
  /\ UNCHANGED <<alerts, mounted, canvas, handlers, rafQueue, nDelivered, latest, failed>>

\* the peer's Close frame arrives: the closing handshake has started, the
\* close event has not fired yet
closeFrame ==
  /\ readyState = OPEN
  /\ readyState' = CLOSING
  /\ last' = Step("closeFrame")
  /\ UNCHANGED <<alerts, systemStatus, mounted, canvas, handlers, rafQueue,
                 nDelivered, latest, failed>>

\* ws.onclose, line 23: the connection is closed (after a handshake, after a
\* failure while OPEN, or because it could not be established)
onclose ==
  /\ readyState # CLOSED
  /\ readyState' = CLOSED
  /\ systemStatus' = StatusDisconnected
  /\ last' = Step("onclose")
  /\ UNCHANGED <<alerts, mounted, canvas, handlers, rafQueue, nDelivered, latest, failed>>

\* ws.onmessage up to the first await, lines 25-27
onmessage(msg) ==
  /\ readyState = OPEN
  /\ nDelivered < MaxMsgs
  /\ nDelivered' = nDelivered + 1
  /\ handlers' = IF msg.blob
                   THEN handlers \cup { [seq |-> nDelivered + 1, pc |-> "arrayBuffer",
                                         buf |-> msg.bytes, blob |-> <<>>] }
                   ELSE handlers
  /\ last' = Step("onmessage")
  /\ UNCHANGED <<alerts, systemStatus, readyState, mounted, canvas, rafQueue, latest, failed>>

\* ws.onmessage from the first await to the second, lines 28-65
arrayBufferResolved(h) ==
  /\ h \in handlers
  /\ h.pc = "arrayBuffer"
  /\ LET threw == Throws(h.buf)
         blob == IF threw THEN <<>> ELSE imageBlob(h.buf)
         payload == payloadOf(h.buf)
     IN  /\ alerts' = alertLogic(h.buf, alerts)
         /\ handlers' =
              IF threw THEN handlers \ {h}
              ELSE (handlers \ {h})
                     \cup { [seq |-> h.seq, pc |-> "createImageBitmap", buf |-> <<>>,
                             blob |-> blob] }
         /\ last' = [Step("arrayBufferResolved") EXCEPT
                       !.len = Len(h.buf),
                       !.L = IF Len(h.buf) < 4 THEN 0 ELSE jsonLen(h.buf),
                       !.threw = threw,
                       !.validImage = Len(h.buf) >= 4 /\ Decodable(imageBlob(h.buf)),
                       !.blobLen = Len(blob),
                       !.decodable = ~threw /\ Decodable(blob),
                       !.created = Len(alerts') - Len(alerts),
                       !.changed = alerts' # alerts,
                       !.seq = h.seq,
                       !.parsed = payload.ok,
                       !.flag = payload.emergency_detected,
                       !.frame_id = payload.frame_id,
                       !.unix_time = payload.unix_time,
                       !.classes = { payload.detections[i] : i \in 1..Len(payload.detections) },
                       !.before = alerts]
         /\ failed' = (failed \/ threw)
  /\ UNCHANGED <<systemStatus, readyState, mounted, canvas, rafQueue, nDelivered, latest>>

\* a paint registered whatever the outcome of the decode
registerPaint_always(queue, h) ==
  Append(queue, [seq |-> h.seq,
                 imageBitmap |-> IF Len(h.blob) >= 2 THEN Bitmap(h.blob) ELSE ""])

\* no paint registered once a handler has failed
registerPaint_stopAfterFailure(queue, h) ==
  IF Decodable(h.blob) /\ ~failed
    THEN Append(queue, [seq |-> h.seq, imageBitmap |-> Bitmap(h.blob)])
    ELSE queue

\* lines 65-67: requestAnimationFrame is reached only when the awaited
\* createImageBitmap resolved
registerPaint(queue, h) ==
  IF Decodable(h.blob)
    THEN Append(queue, [seq |-> h.seq, imageBitmap |-> Bitmap(h.blob)])
    ELSE queue

\* ws.onmessage after the second await, lines 65-76: the decode settles and,
\* when it succeeded, the paint is registered for the next animation frame
imageBitmapResolved(h) ==
  /\ h \in handlers
  /\ h.pc = "createImageBitmap"
  /\ handlers' = handlers \ {h}
  /\ rafQueue' = registerPaint(rafQueue, h)
  /\ failed' = (failed \/ ~Decodable(h.blob))
  /\ latest' = IF Decodable(h.blob) /\ h.seq > latest.seq
                 THEN [seq |-> h.seq, bitmap |-> Bitmap(h.blob)]
                 ELSE latest
  /\ last' = [Step("imageBitmapResolved") EXCEPT
                !.threw = ~Decodable(h.blob), !.decodable = Decodable(h.blob),
                !.seq = h.seq]
  /\ UNCHANGED <<alerts, systemStatus, readyState, mounted, canvas, nDelivered>>

\* one display refresh: every registered callback runs, in registration
\* order, lines 67-76; a callback draws unless canvasRef.current is null
animationFrame ==
  /\ rafQueue # <<>>
  /\ rafQueue' = <<>>
  /\ canvas' = IF mounted THEN rafQueue[Len(rafQueue)].imageBitmap ELSE canvas
  /\ last' = [Step("animationFrame") EXCEPT
                !.draws = IF mounted THEN Len(rafQueue) ELSE 0]
  /\ UNCHANGED <<alerts, systemStatus, readyState, mounted, handlers, nDelivered, latest, failed>>

(* ---------------------------------------------------------------------- *)
(* The operator's action and the unmount                                   *)
(* ---------------------------------------------------------------------- *)
\* a send guard that only rules out a closed socket
sendGuard_notClosed(rs) == rs # CLOSED

\* a filter with the comparison inverted
resolveFilter_inverted(prev, id) ==
  LET keep(a) == a.id = id IN SelectSeq(prev, keep)

\* removal by index: splice(findIndex(...), 1), which removes the last
\* alert when no id matches
resolveFilter_splice(prev, id) ==
  IF \E i \in 1..Len(prev) : prev[i].id = id
    THEN LET at == CHOOSE i \in 1..Len(prev) :
                     prev[i].id = id /\ \A j \in 1..(i - 1) : prev[j].id # id
         IN  SubSeq(prev, 1, at - 1) \o SubSeq(prev, at + 1, Len(prev))
    ELSE SubSeq(prev, 1, Len(prev) - 1)

\* the guard of the send, line 86
sendGuard(rs) == rs = OPEN

\* the filter of line 89
resolveFilter(prev, id) ==
  LET keep(a) == a.id # id IN SelectSeq(prev, keep)

\* handleResolve, lines 85-90, called from the buttons of a rendered alert
\* card; last.sends is what it handed to ws.send
handleResolve(id) ==
  /\ mounted
  /\ alerts' = resolveFilter(alerts, id)
  /\ last' = [Step("handleResolve") EXCEPT
                !.id = id,
                !.again = last.op = "handleResolve" /\ last.id = id,
                !.had = \E i \in 1..Len(alerts) : alerts[i].id = id,
                !.sends = IF sendGuard(readyState)
                            THEN << [action |-> "resolve", event_id |-> id] >>
                            ELSE <<>>,
                !.removed = Len(alerts) - Len(alerts'),
                !.changed = alerts' # alerts]
  /\ UNCHANGED <<systemStatus, readyState, mounted, canvas, handlers, rafQueue,
                 nDelivered, latest, failed>>

\* a cleanup that also writes the status itself
cleanup_setsStatus ==
  /\ mounted
  /\ mounted' = FALSE
  /\ readyState' = IF readyState = OPEN THEN CLOSING ELSE readyState
  /\ systemStatus' = StatusDisconnected
  /\ last' = Step("cleanup")
  /\ UNCHANGED <<alerts, canvas, handlers, rafQueue, nDelivered, latest, failed>>

\* the effect's cleanup on unmount, lines 80-82; React detaches canvasRef
cleanup ==
  /\ mounted
  /\ mounted' = FALSE
  /\ readyState' = IF readyState = OPEN THEN CLOSING ELSE readyState
  /\ last' = Step("cleanup")
  /\ UNCHANGED <<alerts, systemStatus, canvas, handlers, rafQueue, nDelivered, latest, failed>>

\* the ids the operator can click, and one id that may be absent
ResolveIds == { alerts[i].id : i \in 1..Len(alerts) } \cup { eventId(Fire7) }

Next ==
  \/ onopen
  \/ closeFrame
  \/ onclose
  \/ \E msg \in Messages : onmessage(msg)
  \/ \E h \in handlers : arrayBufferResolved(h)
  \/ \E h \in handlers : imageBitmapResolved(h)
  \/ animationFrame
  \/ \E id \in ResolveIds : handleResolve(id)
  \/ cleanup

Spec == Init /\ [][Next]_vars

(* ---------------------------------------------------------------------- *)
(* Properties                                                              *)
(* ---------------------------------------------------------------------- *)
HasId(as, id) == \E i \in 1..Len(as) : as[i].id = id

ResolveNotice(id) == [action |-> "resolve", event_id |-> id]

\* C1: in every reachable state no two alerts of the collection have the
\* same class label.
C1_DedupInvariant ==
  \A i, j \in 1..Len(alerts) : i # j => alerts[i].class_name # alerts[j].class_name

\* a record repeating an active class was ingested: its Fire detection was
\* skipped and only its Fall alert was created, next to the older Fire alert
C1_Witness ==
  /\ last.op = "arrayBufferResolved"
  /\ last.created = 1
  /\ Len(alerts) = 2
  /\ alerts[1].class_name = "Fall"
  /\ alerts[2].class_name = "Fire"
  /\ alerts[1].id # alerts[2].id

\* C2: once the connection state is Disconnected, message handling never
\* changes the alert collection: neither a handler resuming from an await
\* nor a message delivered after the close.
C2_NoProcessingAfterClose ==
  (/\ last.status = StatusDisconnected
   /\ last.op \in {"onmessage", "arrayBufferResolved", "imageBitmapResolved"})
    => ~last.changed

\* C3: no refresh callback draws onto the surface after the connection state
\* has become Disconnected.
C3_NoPaintAfterDisconnected ==
  (last.op = "animationFrame" /\ last.status = StatusDisconnected) => last.draws = 0

\* C4: handling a message whose declared header length L exceeds the message
\* length minus 4 creates no alert, submits nothing paintable and leaves the
\* connection state as it was.
C4_MalformedFrameDropped ==
  (/\ last.op = "arrayBufferResolved"
   /\ last.len >= 4
   /\ last.L > last.len - 4)
    => /\ last.created = 0
       /\ ~last.changed
       /\ ~last.decodable
       /\ systemStatus = last.status

\* C5: demuxing a message either fails or yields an image payload of exactly
\* (message length - 4 - L) bytes.
C5_DemuxExact ==
  (last.op = "arrayBufferResolved" /\ ~last.threw)
    => last.blobLen = last.len - 4 - last.L

\* C6: a message with header length L = 0 is handled without error: it
\* creates no alert and, when the bytes after the header are a valid image,
\* that image is submitted for decode.
C6_EmptyMetadataHandled ==
  (/\ last.op = "arrayBufferResolved"
   /\ last.len >= 4
   /\ last.L = 0)
    => /\ ~last.threw
       /\ last.created = 0
       /\ last.validImage => last.decodable

\* C7: one display refresh draws the surface at most once, however many
\* frames were submitted before it.
C7_OnePaintPerRefresh ==
  last.op = "animationFrame" => last.draws <= 1

\* C8: once every pending conversion, decode and refresh callback has
\* completed, the surface shows the frame of the latest-arrived message whose
\* image decoded successfully.
C8_LatestFramePainted ==
  (/\ mounted
   /\ handlers = {}
   /\ rafQueue = <<>>
   /\ latest.seq > 0)
    => canvas = latest.bitmap

\* C9: after resolve(id), in whatever connection state and whether or not a
\* notice was sent, the collection contains no alert with that id.
C9_ResolveRemoves ==
  last.op = "handleResolve" => ~HasId(alerts, last.id)

\* an alert that was present has been resolved while Disconnected, with no
\* notice sent
C9_Witness ==
  /\ last.op = "handleResolve"
  /\ last.had
  /\ last.removed >= 1
  /\ last.status = StatusDisconnected
  /\ last.sends = <<>>

\* C10, as stated: resolve(id) transmits exactly one notice when the
\* connection state is Active and nothing when it is Connecting or
\* Disconnected.
C10_SendIffActive ==
  last.op = "handleResolve" =>
    /\ last.status = StatusActive => last.sends = <<ResolveNotice(last.id)>>
    /\ last.status \in {StatusConnecting, StatusDisconnected} => last.sends = <<>>

\* C10, amended: resolve(id) transmits exactly one notice
\* {action: "resolve", event_id: id} when the socket is OPEN and nothing
\* otherwise; in particular it transmits nothing when the connection state is
\* Connecting or Disconnected.
C10_SendIffOpen ==
  last.op = "handleResolve" =>
    /\ last.ready = OPEN => last.sends = <<ResolveNotice(last.id)>>
    /\ last.ready # OPEN => last.sends = <<>>
    /\ last.status \in {StatusConnecting, StatusDisconnected} => last.sends = <<>>

\* an active alert has been resolved on an open socket and its notice sent
C10_Witness ==
  /\ last.op = "handleResolve"
  /\ last.had
  /\ last.status = StatusActive
  /\ last.ready = OPEN
  /\ last.sends = <<ResolveNotice(last.id)>>

\* the class labels of a sequence of alerts
Labels(as) == { as[i].class_name : i \in 1..Len(as) }

\* C11: resolve(id) removes one alert and leaves every other alert in the
\* collection, including an alert of another class created from the same
\* metadata record.
C11_ResolveClearsOne ==
  last.op = "handleResolve" => last.removed <= 1

\* C12: resolve(x) for an id x that is not in the collection, in particular a
\* second resolve(x) directly after resolve(x), leaves the collection
\* unchanged.
C12_ResolveIdempotent ==
  (last.op = "handleResolve" /\ ~last.had) => (~last.changed /\ last.removed = 0)

\* resolve(x) directly after resolve(x), with another alert in the collection
C12_Witness ==
  /\ last.op = "handleResolve"
  /\ last.again
  /\ ~last.had
  /\ alerts # <<>>

\* C13: the alerts a message creates are put at the head of the collection,
\* the latest created first, and the alerts already present keep their order
\* behind them.
C13_Prepended ==
  last.op = "arrayBufferResolved" =>
    /\ last.created >= 0
    /\ SubSeq(alerts, last.created + 1, Len(alerts)) = last.before
    /\ \A i \in 1..last.created : alerts[i].class_name \notin Labels(last.before)

\* class B was ingested while class A was active: the order is [B, A]
C13_Witness ==
  /\ last.op = "arrayBufferResolved"
  /\ last.created = 1
  /\ last.before # <<>>
  /\ Tail(alerts) = last.before
  /\ alerts[1].class_name # alerts[2].class_name

\* C14: ingesting a record whose detections all have class labels already in
\* the collection leaves the collection unchanged, whatever its frame id and
\* capture time.
C14_DuplicateIngestNoChange ==
  (/\ last.op = "arrayBufferResolved"
   /\ last.parsed
   /\ last.classes \subseteq Labels(last.before))
    => (~last.changed /\ alerts = last.before)

\* a Fire record was ingested while a Fire alert created from another frame
\* was active
C14_Witness ==
  /\ last.op = "arrayBufferResolved"
  /\ last.parsed
  /\ last.flag = "true"
  /\ last.classes = {"Fire"}
  /\ \E i \in 1..Len(alerts) :
        /\ alerts[i].class_name = "Fire"
        /\ alerts[i].id # "evt_" \o last.frame_id \o "_" \o last.unix_time
  /\ alerts = last.before

\* C15: ingesting a record whose emergency-detected flag is false or absent
\* leaves the collection unchanged, whatever detections it lists.
C15_NoFlagNoChange ==
  (/\ last.op = "arrayBufferResolved"
   /\ last.parsed
   /\ last.flag # "true")
    => (~last.changed /\ last.created = 0)

\* a record with the flag false and a Fire detection was ingested
C15_Witness ==
  /\ last.op = "arrayBufferResolved"
  /\ last.parsed
  /\ last.flag = "false"
  /\ "Fire" \in last.classes
  /\ "Fire" \notin Labels(alerts)

\* C16: every alert a record creates has id "evt_" + frame_id + "_" +
\* unix_time of that record and the class label of one of its
\* emergency-class detections; the record {7, 1000, flag true, [Fire]} on an
\* empty collection creates exactly the alert evt_7_1000 of class Fire.
C16_AlertFromRecord ==
  /\ \A i \in 1..Len(alerts) : alerts[i].class_name \in EmergencyClasses
  /\ last.op = "arrayBufferResolved" =>
       /\ \A i \in 1..last.created :
             /\ alerts[i].id = "evt_" \o last.frame_id \o "_" \o last.unix_time
             /\ alerts[i].class_name \in last.classes \cap EmergencyClasses
       /\ (/\ last.parsed
           /\ last.frame_id = "7"
           /\ last.unix_time = "1000"
           /\ last.flag = "true"
           /\ last.classes = {"Fire"}
           /\ last.before = <<>>)
            => /\ Len(alerts) = 1
               /\ alerts[1].id = "evt_7_1000"
               /\ alerts[1].class_name = "Fire"

\* the record {7, 1000, flag true, [Fire]} was ingested on an empty collection
C16_Witness ==
  /\ last.op = "arrayBufferResolved"
  /\ last.frame_id = "7"
  /\ last.unix_time = "1000"
  /\ last.before = <<>>
  /\ last.created = 1
  /\ last.L = last.len - 4 - last.blobLen

\* the emergency classes a record reports when its flag is set
Reported(step) ==
  IF step.flag = "true" THEN step.classes \cap EmergencyClasses ELSE {}

\* C17, as stated: a message whose image payload fails to decode creates no
\* alert and paints nothing, even when its metadata reports an
\* emergency-class detection.
C17_UndecodableInvisible ==
  /\ (/\ last.op = "arrayBufferResolved"
      /\ ~last.threw
      /\ last.L <= last.len - 4
      /\ ~last.decodable)
       => last.created = 0
  /\ (last.op = "imageBitmapResolved" /\ ~last.decodable)
       => \A i \in 1..Len(rafQueue) : rafQueue[i].seq # last.seq

\* C17, amended: a message whose image payload fails to decode paints
\* nothing (no refresh callback is registered for it, and only decoded
\* bitmaps reach the surface); its metadata is still ingested, so the
\* emergency classes it reports are in the collection afterwards.
C17_UndecodablePaintsNothing ==
  /\ (last.op = "imageBitmapResolved" /\ ~last.decodable)
       => \A i \in 1..Len(rafQueue) : rafQueue[i].seq # last.seq
  /\ \A i \in 1..Len(rafQueue) : rafQueue[i].imageBitmap \in {"A", "B"}
  /\ canvas \in {"blank", "A", "B"}
  /\ (/\ last.op = "arrayBufferResolved"
      /\ ~last.threw
      /\ ~last.decodable)
       => Labels(alerts) = Labels(last.before) \cup Reported(last)

\* the only message so far reported Fire with an undecodable image: its
\* alert is there, nothing is scheduled and nothing is painted
C17_Witness ==
  /\ last.op = "imageBitmapResolved"
  /\ ~last.decodable
  /\ nDelivered = 1
  /\ Labels(alerts) = {"Fire"}
  /\ rafQueue = <<>>
  /\ canvas = "blank"

\* C18: a failed message does not stop the stream: the failure leaves the
\* connection state and the socket as they were, and a valid message
\* handled after a failure has its alerts created, its image submitted,
\* scheduled and painted.
C18_StreamSurvivesFailure ==
  /\ (last.op \in {"arrayBufferResolved", "imageBitmapResolved"} /\ last.threw)
       => (failed /\ systemStatus = last.status /\ readyState = last.ready)
  /\ (failed /\ last.op = "arrayBufferResolved" /\ ~last.threw /\ last.decodable)
       => /\ Labels(alerts) = Labels(last.before) \cup Reported(last)
          /\ \E h \in handlers : h.seq = last.seq /\ h.pc = "createImageBitmap"
  /\ (failed /\ last.op = "imageBitmapResolved" /\ last.decodable)
       => (rafQueue # <<>> /\ rafQueue[Len(rafQueue)].seq = last.seq)
  /\ (failed /\ last.op = "animationFrame" /\ mounted)
       => (last.draws >= 1 /\ canvas # "blank")

\* the first message failed; the second, valid one created its two alerts
\* and its image is on the surface, in state Active
C18_Witness ==
  /\ failed
  /\ last.op = "animationFrame"
  /\ last.draws = 1
  /\ systemStatus = StatusActive
  /\ latest.seq = 2
  /\ canvas = "B"
  /\ Len(alerts) = 2
  /\ alerts[1].id = "evt_8_1001"

\* C19, as stated: the connection state starts as Connecting, becomes Active
\* only on transport-open, becomes Disconnected only on transport-close and
\* only from Active, and never changes once Disconnected.
C19_ConnectingActiveDisconnected ==
  /\ last.op = "init" => systemStatus = StatusConnecting
  /\ systemStatus # last.status =>
       \/ /\ last.op = "onopen"
          /\ last.status = StatusConnecting
          /\ systemStatus = StatusActive
       \/ /\ last.op = "onclose"
          /\ last.status = StatusActive
          /\ systemStatus = StatusDisconnected
  /\ last.status = StatusDisconnected => systemStatus = StatusDisconnected

\* C19, amended: the connection state starts as Connecting, becomes Active
\* only on transport-open and only from Connecting, becomes Disconnected only
\* on transport-close, from Active or from Connecting (a connection that
\* could not be established), and never changes once Disconnected.
C19_StatusTransitions ==
  /\ last.op = "init" => systemStatus = StatusConnecting
  /\ systemStatus # last.status =>
       \/ /\ last.op = "onopen"
          /\ last.status = StatusConnecting
          /\ systemStatus = StatusActive
       \/ /\ last.op = "onclose"
          /\ last.status \in {StatusConnecting, StatusActive}
          /\ systemStatus = StatusDisconnected
  /\ last.status = StatusDisconnected => systemStatus = StatusDisconnected

\* the peer closed the connection while Active: after the closing handshake
\* the close event has set Disconnected
C19_Witness ==
  /\ last.op = "onclose"
  /\ last.status = StatusActive
  /\ last.ready = CLOSING
  /\ mounted
  /\ systemStatus = StatusDisconnected

\* C20: for every binary message handled while Active whose metadata block
\* parses, the image payload is submitted for decode, whatever the metadata
\* says.
C20_ImageAlwaysSubmitted ==
  (/\ last.op = "arrayBufferResolved"
   /\ last.status = StatusActive
   /\ last.parsed)
    => /\ ~last.threw
       /\ \E h \in handlers : h.seq = last.seq /\ h.pc = "createImageBitmap"

====
